---- MODULE Spec2Model ----
(***************************************************************************)
(* Model of parlai/agents/rag/retrieve_api.py: the RetrieverAPI base,      *)
(* SearchEngineRetrieverMock and SearchEngineRetriever.                    *)
(*                                                                         *)
(* Python strings whose characters matter (server addresses, page titles,  *)
(* page text) are sequences of one-character strings; opaque strings       *)
(* (queries, urls) are TLA+ strings.  Python's None is a record field      *)
(* `none`, so that a value and None are never compared across types.       *)
(***************************************************************************)
EXTENDS Integers, Sequences, FiniteSets, TLC

VARIABLES
  phase,            \* "new" | "ready" | "failed" (constructor raised ValueError)
  search_server,    \* opt.get('search_server') as given to the constructor
  kind,             \* "mock" | "engine": the class that was constructed
  skip_query_token, \* RetrieverAPI.skip_query_token
  server_address,   \* SearchEngineRetriever.server_address
  use_local,        \* SearchEngineRetriever.use_local
  pc,               \* "idle" | "loop" | "fetch" | "returned" | "raised"
  err,              \* "" | "provider" | "transport": what a raised call raised
  queries,          \* argument of the running retrieve call
  num_ret,          \* argument of the running retrieve call
  i,                \* 1-based position of the query being processed
  out,              \* the result list being built by retrieve
  calls,            \* history: <<query, result>> of each per-query computation
  urls,             \* _query_local_search_server: the provider's candidates
  j,                \* _query_local_search_server: position in urls
  content,          \* _query_local_search_server: `content`
  fetched,          \* history: urls handed to _get_and_parse for this query
  sent,             \* history: queries for which the network was used
  posts,            \* history: number of POSTs made by _query_search_server
  prev,             \* history: an earlier completed mock call
  text_in,          \* text workbench: a page's rendered text or title
  text_out          \* text workbench: what the code made of text_in

vars == <<phase, search_server, kind, skip_query_token, server_address, use_local, pc, err,
          queries, num_ret, i, out, calls, urls, j, content, fetched, sent,
          posts, prev, text_in, text_out>>

instanceVars == <<phase, search_server, kind, skip_query_token, server_address, use_local>>
callVars == <<pc, err, queries, num_ret, i, out, calls>>
queryVars == <<urls, j, content, fetched>>
textVars == <<text_in, text_out>>

----------------------------------------------------------------------------
(* Bounds *)

MaxBatch == 2     \* longest query batch
MaxNum == 2       \* largest num_ret
MaxCand == 3      \* most candidate urls the provider yields for one query
MaxText == 4      \* longest page text / title, in characters
MaxSuffix == 2    \* longest tail appended to an address prefix

----------------------------------------------------------------------------
(* Strings *)

Min(a, b) == IF a < b THEN a ELSE b

NL == "\n"
CR == "\r"

\* str.startswith
StartsWith(s, p) == Len(s) >= Len(p) /\ SubSeq(s, 1, Len(p)) = p

LOCAL_GOOGLE == <<"l","o","c","a","l","_","g","o","o","g","l","e">>
HTTP == <<"h","t","t","p",":","/","/">>
HTTPS == <<"h","t","t","p","s",":","/","/">>
NoneTitle == <<"N","o","n","e">>

\* Characters str.strip() removes (the ones the model's alphabet has).
Whitespace == {" ", NL, CR}

RECURSIVE SeqsUpTo(_, _)
SeqsUpTo(S, n) ==
  IF n = 0 THEN {<<>>}
  ELSE LET shorter == SeqsUpTo(S, n - 1)
       IN shorter \cup {Append(s, c) : s \in shorter, c \in S}

RECURSIVE LStrip(_)
LStrip(s) ==
  IF s # <<>> /\ Head(s) \in Whitespace THEN LStrip(Tail(s)) ELSE s

RECURSIVE RStrip(_)
RStrip(s) ==
  IF s # <<>> /\ s[Len(s)] \in Whitespace
    THEN RStrip(SubSeq(s, 1, Len(s) - 1))
    ELSE s

\* str.strip()
Strip(s) == RStrip(LStrip(s))

\* str.split('\n'): always at least one segment, separators dropped
RECURSIVE SplitLines(_)
SplitLines(s) ==
  IF s = <<>> THEN << <<>> >>
  ELSE IF Head(s) = NL THEN << <<>> >> \o SplitLines(Tail(s))
  ELSE LET rest == SplitLines(Tail(s))
       IN << <<Head(s)>> \o Head(rest) >> \o Tail(rest)

\* str.replace(c, "") for every c in chars
RECURSIVE RemoveChars(_, _)
RemoveChars(s, chars) ==
  IF s = <<>> THEN <<>>
  ELSE IF Head(s) \in chars THEN RemoveChars(Tail(s), chars)
  ELSE <<Head(s)>> \o RemoveChars(Tail(s), chars)

\* Variant: the filter keeps every non-empty segment (`if s`).
KeepNonEmpty(s) == s # <<>>

\* The filter of the comprehension: `if s and s.strip()`
KeepSegment(s) == s # <<>> /\ Strip(s) # <<>>

\* [s.strip() for s in rd[CONTENT].split('\n') if s and s.strip()]
Sentences(text) ==
  LET kept == SelectSeq(SplitLines(text), KeepSegment)
  IN [k \in 1..Len(kept) |-> Strip(kept[k])]

\* Variant: a missing title element is left as the empty string.
ParseTitleNoPlaceholder(hasTitle, rendered) ==
  RemoveChars(IF hasTitle THEN rendered ELSE <<>>, {NL, CR})

\* The title of _get_and_parse's output_dict: the title element's rendered
\* contents when soup.find("title") found one (a bs4 Tag is always truthy),
\* else None replaced by "None"; then newlines and carriage returns removed.
ParseTitle(hasTitle, rendered) ==
  LET raw == IF hasTitle THEN rendered ELSE NoneTitle
  IN RemoveChars(raw, {NL, CR})

----------------------------------------------------------------------------
(* RetrieverAPI *)

\* create_content_dict(content, url=..., title=...)
CreateContentDict(c, u, t) == [content |-> c, url |-> u, title |-> t]

\* docs = None
NoRetrieval == [none |-> TRUE, docs |-> <<>>]
DocList(docs) == [none |-> FALSE, docs |-> docs]

\* Variant: the skip token is never recognised.
NeverSkip(q, token) == FALSE

\* query == self.skip_query_token
IsSkip(q, token) == q = token

\* Variant: results are put in front of the list.
PrependResult(results, r) == <<r>> \o results

\* all_docs.append(docs) / the list comprehension of retrieve
AppendResult(results, r) == Append(results, r)


----------------------------------------------------------------------------
(* SearchEngineRetrieverMock *)

\* One synthetic document of the mock: f'content {idx} for query "{query}"',
\* url=f'url_{idx}', title=f'title_{idx}'.
MockDoc(idx, query) ==
  CreateContentDict(<<"content ", idx, " for query \"", query, "\"">>,
                    <<"url_", idx>>, <<"title_", idx>>)

\* Variant: indices run from 1 (range(1, num_ret + 1)).
MockDocsFromOne(query, n) == [k \in 1..n |-> MockDoc(k, query)]

\* for idx in range(num_ret): docs.append(doc)
MockDocs(query, n) == [k \in 1..n |-> MockDoc(k - 1, query)]

----------------------------------------------------------------------------
(* SearchEngineRetriever: construction *)

AbsentAddress == [present |-> FALSE, s |-> <<>>]
Address(s) == [present |-> TRUE, s |-> s]

\* Variant: only http:// counts as a protocol prefix.
ValidateServerHttpOnly(a) ==
  IF ~a.present \/ a.s = <<>> THEN [ok |-> FALSE, address |-> <<>>]
  ELSE IF StartsWith(a.s, LOCAL_GOOGLE) THEN [ok |-> TRUE, address |-> a.s]
  ELSE IF StartsWith(a.s, HTTP) THEN [ok |-> TRUE, address |-> a.s]
  ELSE [ok |-> TRUE, address |-> HTTP \o a.s]

\* _validate_server: ok = FALSE is the ValueError
ValidateServer(a) ==
  IF ~a.present \/ a.s = <<>> THEN [ok |-> FALSE, address |-> <<>>]
  ELSE IF StartsWith(a.s, LOCAL_GOOGLE) THEN [ok |-> TRUE, address |-> a.s]
  ELSE IF StartsWith(a.s, HTTP) \/ StartsWith(a.s, HTTPS)
    THEN [ok |-> TRUE, address |-> a.s]
  ELSE [ok |-> TRUE, address |-> HTTP \o a.s]

\* Variant: the flag follows the validated address.
UseLocalByAddress(address) == StartsWith(address, LOCAL_GOOGLE)

\* __init__ after validation: self.use_local = True, and True again for a
\* local_google address.
InitUseLocal(address) == TRUE

\* _retrieve_single: self.use_local = True
DispatchUseLocal(flag) == TRUE

----------------------------------------------------------------------------
(* The web, as _get_and_parse sees it *)

\* The urls the search provider can yield.
URLs == {"", "d", "f", "p1", "p2"}

\* For each url: whether the GET outside the try block succeeds, whether the
\* GET inside the try block succeeds, whether the page has a title element,
\* that element's rendered contents, and the text html2text makes of the page.
Web ==
  [u \in URLs |->
     CASE u \in {"", "d"} ->
                      [get1 |-> FALSE, get2 |-> FALSE, hasTitle |-> FALSE,
                       rendered |-> <<>>, text |-> <<>>]
       [] u = "f"  -> [get1 |-> TRUE, get2 |-> FALSE, hasTitle |-> FALSE,
                       rendered |-> <<>>, text |-> <<>>]
       [] u = "p1" -> [get1 |-> TRUE, get2 |-> TRUE, hasTitle |-> FALSE,
                       rendered |-> <<>>,
                       text |-> <<" ", "a", NL, NL, "b", " ", "a", CR, NL>>]
       [] u = "p2" -> [get1 |-> TRUE, get2 |-> TRUE, hasTitle |-> TRUE,
                       rendered |-> <<>>, text |-> <<" ", NL, CR>>]]

NoDict == [title |-> <<>>, content |-> <<>>, url |-> ""]

\* _get_and_parse(url): "raise" when the first GET raises, "none" when the
\* second GET raises (return None), else the output_dict.
GetAndParse(url) ==
  LET w == Web[url]
  IN IF ~w.get1 THEN [res |-> "raise", dict |-> NoDict]
     ELSE IF ~w.get2 THEN [res |-> "none", dict |-> NoDict]
     ELSE [res |-> "dict",
           dict |-> [title |-> ParseTitle(w.hasTitle, w.rendered),
                     content |-> w.text, url |-> url]]

----------------------------------------------------------------------------
(* SearchEngineRetriever: one query *)

NoRepeat(s) == \A a, b \in 1..Len(s) : a # b => s[a] # s[b]

\* What googlesearch.search can yield: distinct urls, in some order.
Cands == {s \in SeqsUpTo(URLs, MaxCand) : NoRepeat(s)}

ProviderReplies ==
  {[raised |-> TRUE, urls |-> <<>>]} \cup
  {[raised |-> FALSE, urls |-> s] : s \in Cands}

\* Replies of the remote search server to the POST of _query_search_server.
ServerReplies ==
  {[status |-> 500, response |-> <<>>],
   [status |-> 200, response |-> <<>>],
   [status |-> 200,
    response |-> <<[url |-> "p1", title |-> <<"T">>, content |-> <<"a", NL>>]>>]}

\* _query_search_server: the 'response' field on status 200, else None
QuerySearchServer(reply) ==
  IF reply.status = 200 THEN reply.response ELSE <<>>

\* Variant: the loop has no break.
AlwaysFetch(c, n) == TRUE

\* _query_local_search_server: not (len(content) >= n), the loop goes on
ShouldFetch(c, n) == ~(Len(c) >= n)

\* _query_local_search_server: content[:n]
Truncate(c, n) == SubSeq(c, 1, Min(n, Len(c)))

\* _retrieve_single from the server response on: [] for an empty response,
\* else one content dict per response entry.
RetrievedDocs(resp) ==
  IF resp = <<>> THEN <<>>
  ELSE [k \in 1..Len(resp) |->
          CreateContentDict(Sentences(resp[k].content), resp[k].url,
                            resp[k].title)]

----------------------------------------------------------------------------
(* Inputs *)

QueryTokens == {"s", "a"}
SkipTokens == {"s", "a"}
Batches == SeqsUpTo(QueryTokens, MaxBatch)
NumRets == 0..MaxNum

\* Addresses the retrieval runs are explored with.
RunAddresses ==
  {AbsentAddress, Address(<<>>), Address(LOCAL_GOOGLE), Address(<<"e">>),
   Address(HTTPS \o <<"e">>)}

NoPrev == [some |-> FALSE, queries |-> <<>>, num_ret |-> 0, out |-> <<>>]
NoText == [done |-> FALSE, docs |-> <<>>]

----------------------------------------------------------------------------
(* Actions *)

InitProgram ==
  /\ phase = "new"
  /\ search_server = AbsentAddress
  /\ kind = ""
  /\ skip_query_token = ""
  /\ server_address = <<>>
  /\ use_local = FALSE
  /\ pc = "idle"
  /\ err = ""
  /\ queries = <<>>
  /\ num_ret = 0
  /\ i = 1
  /\ out = <<>>
  /\ calls = <<>>
  /\ urls = <<>>
  /\ j = 1
  /\ content = <<>>
  /\ fetched = <<>>
  /\ sent = {}
  /\ posts = 0
  /\ prev = NoPrev

Init ==
  /\ InitProgram
  /\ text_in = <<>>
  /\ text_out = NoText

\* RetrieverAPI.__init__ (the mock) and SearchEngineRetriever.__init__
Construct(k, token, a) ==
  /\ phase = "new"
  /\ kind' = k
  /\ skip_query_token' = token
  /\ IF k = "mock"
       THEN /\ phase' = "ready"
            /\ UNCHANGED <<search_server, server_address, use_local>>
       ELSE LET v == ValidateServer(a)
            IN /\ search_server' = a
               /\ IF v.ok
                    THEN /\ phase' = "ready"
                         /\ server_address' = v.address
                         /\ use_local' = InitUseLocal(v.address)
                    ELSE /\ phase' = "failed"
                         /\ UNCHANGED <<server_address, use_local>>
  /\ UNCHANGED <<callVars, queryVars, sent, posts, prev, textVars>>

\* A caller enters retrieve(qs, n).
StartRetrieve(qs, n) ==
  /\ phase = "ready"
  /\ pc = "idle"
  /\ pc' = "loop"
  /\ err' = ""
  /\ queries' = qs
  /\ num_ret' = n
  /\ i' = 1
  /\ out' = <<>>
  /\ calls' = <<>>
  /\ urls' = <<>>
  /\ j' = 1
  /\ content' = <<>>
  /\ fetched' = <<>>
  /\ sent' = {}
  /\ UNCHANGED <<instanceVars, posts, prev, textVars>>

\* SearchEngineRetrieverMock.retrieve: one turn of `for query in queries`
MockLoopStep ==
  /\ kind = "mock"
  /\ pc = "loop"
  /\ i <= Len(queries)
  /\ LET query == queries[i]
         docs == IF IsSkip(query, skip_query_token)
                   THEN NoRetrieval
                   ELSE DocList(MockDocs(query, num_ret))
     IN /\ out' = AppendResult(out, docs)
        /\ calls' = Append(calls, <<query, docs>>)
  /\ i' = i + 1
  /\ UNCHANGED <<instanceVars, pc, err, queries, num_ret, queryVars, sent,
                 posts, prev, textVars>>

\* _retrieve_single up to the answer of the search provider (or, were
\* use_local false, the whole remote path through _query_search_server)
RetrieveSingleBegin ==
  /\ kind = "engine"
  /\ pc = "loop"
  /\ i <= Len(queries)
  /\ LET query == queries[i]
     IN IF IsSkip(query, skip_query_token)
          THEN /\ out' = AppendResult(out, NoRetrieval)
               /\ calls' = Append(calls, <<query, NoRetrieval>>)
               /\ i' = i + 1
               /\ urls' = <<>>
               /\ j' = 1
               /\ content' = <<>>
               /\ fetched' = <<>>
               /\ UNCHANGED <<use_local, pc, err, sent, posts>>
          ELSE LET local == DispatchUseLocal(use_local)
               IN /\ use_local' = local
                  /\ sent' = sent \cup {query}
                  /\ content' = <<>>
                  /\ fetched' = <<>>
                  /\ j' = 1
                  /\ IF local
                       THEN \E r \in ProviderReplies :
                              /\ urls' = r.urls
                              /\ pc' = IF r.raised THEN "raised" ELSE "fetch"
                              /\ err' = IF r.raised THEN "provider" ELSE err
                              /\ UNCHANGED <<out, calls, i, posts>>
                       ELSE \E reply \in ServerReplies :
                              LET docs == DocList(RetrievedDocs(
                                            QuerySearchServer(reply)))
                              IN /\ posts' = posts + 1
                                 /\ out' = AppendResult(out, docs)
                                 /\ calls' = Append(calls, <<query, docs>>)
                                 /\ i' = i + 1
                                 /\ urls' = <<>>
                                 /\ UNCHANGED <<pc, err>>
  /\ UNCHANGED <<phase, search_server, kind, skip_query_token,
                 server_address, queries, num_ret, prev, textVars>>

\* _query_local_search_server: one turn of `for url in urls` that gets past
\* the break, with the call of _get_and_parse
FetchStep ==
  /\ kind = "engine"
  /\ pc = "fetch"
  /\ j <= Len(urls)
  /\ ShouldFetch(content, num_ret)
  /\ LET r == GetAndParse(urls[j])
     IN /\ fetched' = Append(fetched, urls[j])
        /\ sent' = sent \cup {queries[i]}
        /\ IF r.res = "raise"
             THEN /\ pc' = "raised"
                  /\ err' = "transport"
                  /\ UNCHANGED <<j, content>>
             ELSE /\ j' = j + 1
                  /\ content' = IF r.res = "dict"
                                  THEN Append(content, r.dict)
                                  ELSE content
                  /\ UNCHANGED <<pc, err>>
  /\ UNCHANGED <<instanceVars, queries, num_ret, i, out, calls, urls, posts,
                 prev, textVars>>

\* The loop of _query_local_search_server ends (candidates exhausted or the
\* break); content[:n]; _retrieve_single builds the documents and returns.
FinishQuery ==
  /\ kind = "engine"
  /\ pc = "fetch"
  /\ j > Len(urls) \/ ~ShouldFetch(content, num_ret)
  /\ LET docs == DocList(RetrievedDocs(Truncate(content, num_ret)))
     IN /\ out' = AppendResult(out, docs)
        /\ calls' = Append(calls, <<queries[i], docs>>)
  /\ i' = i + 1
  /\ pc' = "loop"
  /\ UNCHANGED <<instanceVars, err, queries, num_ret, queryVars, sent, posts,
                 prev, textVars>>

\* retrieve returns the list it built
Return ==
  /\ pc = "loop"
  /\ i > Len(queries)
  /\ pc' = "returned"
  /\ urls' = <<>>
  /\ j' = 1
  /\ content' = <<>>
  /\ fetched' = <<>>
  /\ UNCHANGED <<instanceVars, err, queries, num_ret, i, out, calls, sent,
                 posts, prev, textVars>>

\* The caller takes what retrieve returned or raised, and the frame is gone;
\* what a mock call returned may be remembered for comparison.
Collect(remember) ==
  /\ pc \in {"returned", "raised"}
  /\ pc' = "idle"
  /\ err' = ""
  /\ queries' = <<>>
  /\ num_ret' = 0
  /\ i' = 1
  /\ out' = <<>>
  /\ calls' = <<>>
  /\ urls' = <<>>
  /\ j' = 1
  /\ content' = <<>>
  /\ fetched' = <<>>
  /\ sent' = {}
  /\ prev' = IF remember /\ kind = "mock" /\ pc = "returned"
               THEN [some |-> TRUE, queries |-> queries, num_ret |-> num_ret,
                     out |-> out]
               ELSE prev
  /\ UNCHANGED <<instanceVars, posts, textVars>>

Next ==
  \/ \E k \in {"mock", "engine"}, token \in SkipTokens, a \in RunAddresses :
       Construct(k, token, a)
  \/ \E qs \in Batches, n \in NumRets : StartRetrieve(qs, n)
  \/ MockLoopStep
  \/ RetrieveSingleBegin
  \/ FetchStep
  \/ FinishQuery
  \/ Return
  \/ \E remember \in BOOLEAN : Collect(remember)

Spec == Init /\ [][Next]_vars

----------------------------------------------------------------------------
(* Construction alone, over a wide set of addresses *)

AddressPrefixes ==
  {<<>>, LOCAL_GOOGLE, HTTP, HTTPS,
   <<"l","o","c","a","l","_","g","o","o","g","l">>,
   <<"h","t","t","p",":","/">>,
   <<"h","t","t","p","s",":">>,
   <<"f","t","p",":","/","/">>,
   <<" ">>}

AddressTailChars == {"/", "e", "s"}

AllAddresses ==
  {AbsentAddress} \cup
  {Address(p \o t) : p \in AddressPrefixes,
                     t \in SeqsUpTo(AddressTailChars, MaxSuffix)}

NextAddr ==
  \E token \in SkipTokens, a \in AllAddresses : Construct("engine", token, a)

SpecAddr == Init /\ [][NextAddr]_vars

----------------------------------------------------------------------------
(* The sentence splitting of _retrieve_single alone, over many page texts *)

TextAlphabet == {"a", "b", " ", NL, CR}
Texts == SeqsUpTo(TextAlphabet, MaxText)

InitText ==
  /\ InitProgram
  /\ text_in \in Texts
  /\ text_out = NoText

\* _retrieve_single's loop over a response of one entry whose content is
\* text_in
BuildDocuments ==
  /\ ~text_out.done
  /\ text_out' =
       [done |-> TRUE,
        docs |-> RetrievedDocs(<<[url |-> "p1", title |-> NoneTitle,
                                  content |-> text_in]>>)]
  /\ UNCHANGED <<instanceVars, callVars, queryVars, sent, posts, prev,
                 text_in>>

NextText == BuildDocuments

SpecText == InitText /\ [][NextText]_vars

----------------------------------------------------------------------------
(* Properties *)

IsPrefix(p, s) == Len(p) <= Len(s) /\ \A k \in 1..Len(p) : s[k] = p[k]

Range(s) == {s[k] : k \in 1..Len(s)}

UrlsOf(docs) == [k \in 1..Len(docs) |-> docs[k].url]

Fetchable(u) == Web[u].get1 /\ Web[u].get2

\* The documents of every list in the result built so far
DocsOut == UNION {Range(out[k].docs) : k \in 1..Len(out)}

\* C1: retrieve (mock and search engine) returns exactly len(queries)
\* results, and the result at position k is the one computed for query k:
\* the k-th per-query computation was for queries[k] and produced out[k].
C1_OrderPreserved ==
  /\ Len(out) = Len(calls)
  /\ Len(out) <= Len(queries)
  /\ \A k \in 1..Len(out) :
       /\ calls[k][1] = queries[k]
       /\ out[k] = calls[k][2]
       /\ out[k].none <=> queries[k] = skip_query_token
       /\ kind = "mock" =>
            \A m \in 1..Len(out[k].docs) : out[k].docs[m].content[4] = queries[k]
  /\ pc = "returned" => Len(out) = Len(queries)

C1_Witness ==
  /\ pc = "returned"
  /\ kind = "engine"
  /\ Len(queries) = 2
  /\ queries[1] # skip_query_token
  /\ queries[2] = skip_query_token
  /\ Len(out[1].docs) = 2

\* C2: a query equal to the skip token yields the "no retrieval" sentinel
\* whatever num_ret is, and the network (search provider, page fetch, POST)
\* is never used for it.
C2_SkipNeverSent ==
  /\ skip_query_token \notin sent
  /\ \A k \in 1..Len(out) : queries[k] = skip_query_token => out[k].none

C2_Witness ==
  /\ pc = "returned"
  /\ kind = "engine"
  /\ num_ret = 2
  /\ queries = <<"a", skip_query_token>>
  /\ sent = {"a"}
  /\ out[2].none

\* C3: a transport failure while fetching a candidate url never raises out
\* of the page fetcher, the query or the batch.
C3_TransportFailureIsolated == ~(pc = "raised" /\ err = "transport")

\* C4: a candidate url is handed to the page fetcher only while fewer than
\* num_ret documents have been accumulated, and never when num_ret = 0.
C4_ShortCircuit ==
  /\ [][Len(fetched') > Len(fetched) => Len(content) < num_ret]_vars
  /\ [](num_ret = 0 => fetched = <<>>)
  /\ [](Len(content) <= num_ret)

C4_Witness ==
  /\ pc = "fetch"
  /\ num_ret >= 1
  /\ Len(content) = num_ret
  /\ j <= Len(urls)
  /\ "f" \in Range(fetched)

\* C5: for a non-skip query with candidates U, _retrieve_single returns the
\* documents of the first min(n, k) fetchable candidates of U, in order,
\* where k is the number of fetchable candidates (and so returns a list).
C5_FirstFetchable ==
  /\ ~(pc = "raised" /\ err = "transport")
  /\ (kind = "engine" /\ pc = "loop" /\ i > 1 /\ ~out[i - 1].none) =>
       LET good == SelectSeq(urls, Fetchable)
       IN /\ UrlsOf(out[i - 1].docs) = SubSeq(good, 1, Min(num_ret, Len(good)))
          /\ Len(out[i - 1].docs) <= num_ret

KnownPrefix(s) ==
  IsPrefix(LOCAL_GOOGLE, s) \/ IsPrefix(HTTP, s) \/ IsPrefix(HTTPS, s)

\* C6: an empty or absent address fails construction; an address starting
\* with local_google, http:// or https:// is stored unchanged; any other is
\* stored with http:// in front; so every stored address starts with one of
\* the three and validating it again returns it unchanged.
C6_ValidateServer ==
  (kind = "engine" /\ phase # "new") =>
    /\ phase = "failed" <=> (~search_server.present \/ search_server.s = <<>>)
    /\ phase = "failed" => server_address = <<>> /\ pc = "idle"
    /\ phase = "ready" =>
         /\ KnownPrefix(search_server.s) => server_address = search_server.s
         /\ ~KnownPrefix(search_server.s) =>
              server_address = HTTP \o search_server.s
         /\ KnownPrefix(server_address)
         /\ ValidateServer(Address(server_address)) =
              [ok |-> TRUE, address |-> server_address]

C6_Witness ==
  /\ phase = "ready"
  /\ search_server.s = <<"h","t","t","p",":","/","e">>
  /\ server_address = HTTP \o search_server.s

\* Positions of text that hold the first non-whitespace character of a line
LineStarts(text) ==
  {p \in 1..Len(text) :
     /\ text[p] \notin Whitespace
     /\ \A q \in 1..(p - 1) :
          (\A r \in q..(p - 1) : text[r] # NL) => text[q] \in Whitespace}

\* The last non-whitespace position of the line that position p is in
LineEnd(text, p) ==
  CHOOSE e \in p..Len(text) :
    /\ text[e] \notin Whitespace
    /\ \A r \in p..e : text[r] # NL
    /\ \A q \in (e + 1)..Len(text) :
         (\A r \in e..q : text[r] # NL) => text[q] \in Whitespace

\* C7: every element of a returned document's content is a non-empty string
\* without leading or trailing whitespace, and the elements are the
\* non-blank lines of the page text (trimmed), in their original order.
C7_TrimmedNonBlankLines ==
  text_out.done =>
    /\ Len(text_out.docs) = 1
    /\ \A d \in Range(text_out.docs) :
         LET starts == LineStarts(text_in)
         IN /\ Len(d.content) = Cardinality(starts)
            /\ \A k \in 1..Len(d.content) :
                 LET seg == d.content[k]
                 IN /\ seg # <<>>
                    /\ seg[1] \notin Whitespace
                    /\ seg[Len(seg)] \notin Whitespace
                    /\ \E p \in starts :
                         /\ Cardinality({q \in starts : q < p}) = k - 1
                         /\ seg = SubSeq(text_in, p, LineEnd(text_in, p))

C7_Witness ==
  /\ text_out.done
  /\ text_in = <<" ", "a", NL, NL>>
  /\ text_out.docs[1].content = << <<"a">> >>

OnlyFrom(s, chars) == \A k \in 1..Len(s) : s[k] \in chars

C9_MockDocuments ==
  kind = "mock" =>
    /\ \A k \in 1..Len(out) :
         queries[k] # skip_query_token =>
           /\ ~out[k].none
           /\ Len(out[k].docs) = num_ret
           /\ \A m \in 1..Len(out[k].docs) :
                LET d == out[k].docs[m]
                IN /\ d.url = <<"url_", m - 1>>
                   /\ d.title = <<"title_", m - 1>>
                   /\ d.content[2] = m - 1
                   /\ d.content[4] = queries[k]
    /\ (pc = "returned" /\ prev.some /\ prev.queries = queries
        /\ prev.num_ret = num_ret) => out = prev.out

C9_Witness ==
  /\ kind = "mock"
  /\ pc = "returned"
  /\ prev.some
  /\ prev.queries = queries
  /\ prev.num_ret = num_ret
  /\ num_ret = 2
  /\ Len(queries) = 2
  /\ queries[1] # skip_query_token
  /\ out = prev.out

====
